---- MODULE Spec2Model ----
(***************************************************************************)
(* A model of bc-license-checker (src/main.rs): the license report scanner *)
(* and row parser, the inventory loader, the reconciler and the violation  *)
(* reporter of `main`, as one sequential state machine.                    *)
(*                                                                         *)
(* Text is modelled as sequences of one-character strings, so that exact   *)
(* line comparison, whitespace splitting and number parsing are computed   *)
(* and not assumed.                                                        *)
(***************************************************************************)
EXTENDS Integers, Sequences, FiniteSets, TLC

(* ------------------------------------------------------------------ *)
(* String literals of the source, as character sequences.             *)
(* ------------------------------------------------------------------ *)
sTableData == <<"T", "a", "b", "l", "e", "D", "a", "t", "a">>
sTable == <<"T", "a", "b", "l", "e">>
sReport == <<"R", "e", "p", "o", "r", "t">>
sCodeunit == <<"C", "o", "d", "e", "u", "n", "i", "t">>
sXMLport == <<"X", "M", "L", "p", "o", "r", "t">>
sXMLPort == <<"X", "M", "L", "P", "o", "r", "t">>
sMenuSuite == <<"M", "e", "n", "u", "S", "u", "i", "t", "e">>
sPage == <<"P", "a", "g", "e">>
sQuery == <<"Q", "u", "e", "r", "y">>
sSystem == <<"S", "y", "s", "t", "e", "m">>
sFieldNumber == <<"F", "i", "e", "l", "d", "N", "u", "m", "b", "e", "r">>
sPageExtension == <<"P", "a", "g", "e", "E", "x", "t", "e", "n", "s", "i", "o", "n">>
sTableExtension == <<"T", "a", "b", "l", "e", "E", "x", "t", "e", "n", "s", "i", "o", "n">>
sEnum == <<"E", "n", "u", "m">>
sEnumExtension == <<"E", "n", "u", "m", "E", "x", "t", "e", "n", "s", "i", "o", "n">>
sProfile == <<"P", "r", "o", "f", "i", "l", "e">>
sProfileExtension == <<"P", "r", "o", "f", "i", "l", "e", "E", "x", "t", "e", "n", "s", "i", "o", "n">>
sPermissionSet == <<"P", "e", "r", "m", "i", "s", "s", "i", "o", "n", "S", "e", "t">>
sPermissionSetExtension == <<"P", "e", "r", "m", "i", "s", "s", "i", "o", "n", "S", "e", "t", "E", "x", "t", "e", "n", "s", "i", "o", "n">>
sReportExtension == <<"R", "e", "p", "o", "r", "t", "E", "x", "t", "e", "n", "s", "i", "o", "n">>
sObjectAssignment == <<"O", "b", "j", "e", "c", "t", " ", "A", "s", "s", "i", "g", "n", "m", "e", "n", "t">>
sModuleObjectsAndPermissions == <<"M", "o", "d", "u", "l", "e", " ", "O", "b", "j", "e", "c", "t", "s", " ", "a", "n", "d", " ", "P", "e", "r", "m", "i", "s", "s", "i", "o", "n", "s">>
sDirect == <<"D", "i", "r", "e", "c", "t">>
sAvailableRange == <<"5", "0", "0", "0", "0", " ", "-", " ", "9", "9", "9", "9", "9">>
sRIMDX == <<"R", "I", "M", "D", "X">>
sX == <<"X">>
sNoMissing == <<"N", "o", " ", "m", "i", "s", "s", "i", "n", "g", " ", "o", "b", "j", "e", "c", "t", "s", " ", "f", "o", "u", "n", "d", "!">>
sCsvHeader == <<"O", "b", "j", "e", "c", "t", "T", "y", "p", "e", ",", "F", "r", "o", "m", "O", "b", "j", "e", "c", "t", "I", "D", ",", "T", "o", "O", "b", "j", "e", "c", "t", "I", "D", ",", "R", "e", "a", "d", ",", "I", "n", "s", "e", "r", "t", ",", "M", "o", "d", "i", "f", "y", ",", "D", "e", "l", "e", "t", "e", ",", "E", "x", "e", "c", "u", "t", "e", ",", "A", "v", "a", "i", "l", "a", "b", "l", "e", "R", "a", "n", "g", "e", ",", "U", "s", "e", "d", ",", "O", "b", "j", "e", "c", "t", "T", "y", "p", "e", "R", "e", "m", "a", "i", "n", "i", "n", "g", ",", "C", "o", "m", "p", "a", "n", "y", "O", "b", "j", "e", "c", "t", "P", "e", "r", "m", "i", "s", "s", "i", "o", "n", "I", "D">>
sWrote == <<"W", "r", "o", "t", "e", " ", "m", "i", "s", "s", "i", "n", "g", " ", "p", "e", "r", "m", "i", "s", "s", "i", "o", "n", "s", " ", "t", "o", " ", "m", "i", "s", "s", "i", "n", "g", "-", "p", "e", "r", "m", "i", "s", "s", "i", "o", "n", "s", ".", "c", "s", "v">>

(* ------------------------------------------------------------------ *)
(* Input vocabulary: the lines a license report is built from and the *)
(* cell texts of the inventory sheet.                                  *)
(* ------------------------------------------------------------------ *)
LineMarkerTrailing == <<"O", "b", "j", "e", "c", "t", " ", "A", "s", "s", "i", "g", "n", "m", "e", "n", "t", " ">>
LineBlank == <<>>
LineSpaces == <<" ", " ">>
LineRowCodeunit == <<"C", "o", "d", "e", "u", "n", "i", "t", " ", " ", "1", "1", " ", "5", "0", "0", "5", "0", " ", "6", "0", "0", "0", "0", " ", "X">>
LineRowReversed == <<"C", "o", "d", "e", "u", "n", "i", "t", " ", "1", " ", "9", "9", "9", "9", "9", "\t", "6", "0", "0", "0", "0", " ", "X">>
LineRowFour == <<"C", "o", "d", "e", "u", "n", "i", "t", " ", "5", "0", "0", "5", "0", " ", "6", "0", "0", "0", "0", " ", "X">>
LineRowBadNumber == <<"C", "o", "d", "e", "u", "n", "i", "t", " ", "1", " ", "5", "O", "O", "5", "0", " ", "6", "0", "0", "0", "0", " ", "X">>
LineRowUnknownType == <<"F", "o", "r", "m", " ", "1", " ", "5", "0", "0", "5", "0", " ", "6", "0", "0", "0", "0", " ", "X">>
NameA == <<"A">>
NameB == <<"B">>
sType == <<"T", "y", "p", "e">>
sID == <<"I", "D">>
sName == <<"N", "a", "m", "e">>
sForm == <<"F", "o", "r", "m">>

(* ------------------------------------------------------------------ *)
(* Bounds of the model.                                                *)
(* ------------------------------------------------------------------ *)
\* lines of the report in front of the section marker
MaxPre == 1
\* lines drawn from HeaderLines directly after the section marker
MaxHeader == 4
\* lines drawn from BodyLines after those
MaxBody == 2
\* data rows of the inventory sheet (the header row not counted)
MaxRows == 2

SeqsUpTo(S, n) == UNION {[1..k -> S] : k \in 0..n}

(* ------------------------------------------------------------------ *)
(* Text primitives.                                                    *)
(* ------------------------------------------------------------------ *)
IsWhitespace(c) == c \in {" ", "\t"}

RECURSIVE SplitFrom(_, _, _, _)
SplitFrom(s, i, cur, acc) ==
    IF i > Len(s)
    THEN IF cur = <<>> THEN acc ELSE Append(acc, cur)
    ELSE IF IsWhitespace(s[i])
         THEN SplitFrom(s, i + 1, <<>>, IF cur = <<>> THEN acc ELSE Append(acc, cur))
         ELSE SplitFrom(s, i + 1, Append(cur, s[i]), acc)

\* str::split_whitespace: the maximal runs of non-whitespace characters
split_whitespace(line) == SplitFrom(line, 1, <<>>, <<>>)

Digits == {"0", "1", "2", "3", "4", "5", "6", "7", "8", "9"}

DigitValue(c) ==
    CASE c = "0" -> 0 [] c = "1" -> 1 [] c = "2" -> 2 [] c = "3" -> 3
      [] c = "4" -> 4 [] c = "5" -> 5 [] c = "6" -> 6 [] c = "7" -> 7
      [] c = "8" -> 8 [] c = "9" -> 9

DigitChar(n) ==
    CASE n = 0 -> "0" [] n = 1 -> "1" [] n = 2 -> "2" [] n = 3 -> "3"
      [] n = 4 -> "4" [] n = 5 -> "5" [] n = 6 -> "6" [] n = 7 -> "7"
      [] n = 8 -> "8" [] n = 9 -> "9"

RECURSIVE DigitsValue(_, _, _)
DigitsValue(s, i, acc) ==
    IF i > Len(s) THEN acc ELSE DigitsValue(s, i + 1, acc * 10 + DigitValue(s[i]))

\* str::parse::<i64>: an optional sign, then one or more decimal digits and
\* nothing else. (The tokens of the model have at most six digits, so the
\* overflow error of the parser is out of reach.)
parse_i64(tok) ==
    LET signed == Len(tok) > 0 /\ tok[1] \in {"+", "-"}
        body   == IF signed THEN Tail(tok) ELSE tok
    IN  IF body = <<>> \/ \E i \in 1..Len(body) : body[i] \notin Digits
        THEN [ok |-> FALSE, v |-> 0]
        ELSE [ok |-> TRUE,
              v  |-> IF signed /\ tok[1] = "-"
                     THEN 0 - DigitsValue(body, 1, 0)
                     ELSE DigitsValue(body, 1, 0)]

RECURSIVE NatToString(_)
NatToString(n) ==
    IF n < 10 THEN <<DigitChar(n)>>
    ELSE Append(NatToString(n \div 10), DigitChar(n % 10))

\* i64::to_string
IntToString(n) == IF n < 0 THEN <<"-">> \o NatToString(0 - n) ELSE NatToString(n)

RECURSIVE JoinFrom(_, _, _)
JoinFrom(fields, i, sep) ==
    IF i > Len(fields) THEN <<>>
    ELSE IF i = Len(fields) THEN fields[i]
    ELSE fields[i] \o sep \o JoinFrom(fields, i + 1, sep)

\* [&str]::join
Join(fields, sep) == JoinFrom(fields, 1, sep)

(* ------------------------------------------------------------------ *)
(* ObjectType.                                                         *)
(* ------------------------------------------------------------------ *)
ObjectTypes ==
    {"TableData", "Table", "Report", "Codeunit", "XMLport", "MenuSuite", "Page",
     "Query", "System", "FieldNumber", "PageExtension", "TableExtension", "Enum",
     "EnumExtension", "Profile", "ProfileExtension", "PermissionSet",
     "PermissionSetExtension", "ReportExtension"}

\* ObjectType::from; ok = FALSE is the unimplemented!() panic of the last arm
ObjectType_from(s) ==
    CASE s = sTableData -> [ok |-> TRUE, t |-> "TableData"]
      [] s = sTable -> [ok |-> TRUE, t |-> "Table"]
      [] s = sReport -> [ok |-> TRUE, t |-> "Report"]
      [] s = sCodeunit -> [ok |-> TRUE, t |-> "Codeunit"]
      [] s = sXMLport \/ s = sXMLPort -> [ok |-> TRUE, t |-> "XMLport"]
      [] s = sMenuSuite -> [ok |-> TRUE, t |-> "MenuSuite"]
      [] s = sPage -> [ok |-> TRUE, t |-> "Page"]
      [] s = sQuery -> [ok |-> TRUE, t |-> "Query"]
      [] s = sSystem -> [ok |-> TRUE, t |-> "System"]
      [] s = sFieldNumber -> [ok |-> TRUE, t |-> "FieldNumber"]
      [] s = sPageExtension -> [ok |-> TRUE, t |-> "PageExtension"]
      [] s = sTableExtension -> [ok |-> TRUE, t |-> "TableExtension"]
      [] s = sEnum -> [ok |-> TRUE, t |-> "Enum"]
      [] s = sEnumExtension -> [ok |-> TRUE, t |-> "EnumExtension"]
      [] s = sProfile -> [ok |-> TRUE, t |-> "Profile"]
      [] s = sProfileExtension -> [ok |-> TRUE, t |-> "ProfileExtension"]
      [] s = sPermissionSet -> [ok |-> TRUE, t |-> "PermissionSet"]
      [] s = sPermissionSetExtension -> [ok |-> TRUE, t |-> "PermissionSetExtension"]
      [] s = sReportExtension -> [ok |-> TRUE, t |-> "ReportExtension"]
      [] OTHER -> [ok |-> FALSE, t |-> "Table"]

\* ObjectType::to_string
to_string(t) ==
    CASE t = "TableData" -> sTableData
      [] t = "Table" -> sTable
      [] t = "Report" -> sReport
      [] t = "Codeunit" -> sCodeunit
      [] t = "XMLport" -> sXMLPort
      [] t = "MenuSuite" -> sMenuSuite
      [] t = "Page" -> sPage
      [] t = "Query" -> sQuery
      [] t = "System" -> sSystem
      [] t = "FieldNumber" -> sFieldNumber
      [] t = "PageExtension" -> sPageExtension
      [] t = "TableExtension" -> sTableExtension
      [] t = "Enum" -> sEnum
      [] t = "EnumExtension" -> sEnumExtension
      [] t = "Profile" -> sProfile
      [] t = "ProfileExtension" -> sProfileExtension
      [] t = "PermissionSet" -> sPermissionSet
      [] t = "PermissionSetExtension" -> sPermissionSetExtension
      [] t = "ReportExtension" -> sReportExtension

\* a plausible slip: Table moved to the licensed arm
is_licensed_TableLicensed(t) ==
    t \in {"TableData", "Table", "Report", "Codeunit", "XMLport", "Query", "Page"}

\* ObjectType::is_licensed
is_licensed(t) ==
    CASE t \in {"TableData", "Report", "Codeunit", "XMLport", "Query", "Page"} -> TRUE
      [] t \in {"Table", "MenuSuite", "System", "FieldNumber", "PageExtension",
                "TableExtension", "Enum", "EnumExtension", "Profile",
                "ProfileExtension", "PermissionSet", "PermissionSetExtension",
                "ReportExtension"} -> FALSE

(* ------------------------------------------------------------------ *)
(* ObjectRange, Object.                                                *)
(* ------------------------------------------------------------------ *)
\* ObjectRange::new, for a type name ObjectType::from accepts
ObjectRange_new(object_type, range_from, range_to, permission) ==
    [object_type |-> ObjectType_from(object_type).t,
     quantity    |-> range_to - range_from + 1,
     range_from  |-> range_from,
     range_to    |-> range_to,
     permission  |-> permission]

\* Object::new, for a type name ObjectType::from accepts
Object_new(object_type, id, name) ==
    [object_type |-> ObjectType_from(object_type).t, id |-> id, name |-> name]

\* the built-in ranges `main` starts from
SeedRanges ==
    <<ObjectRange_new(sTableData, 50000, 50009, sRIMDX),
      ObjectRange_new(sPage, 50000, 50099, sX),
      ObjectRange_new(sReport, 50000, 50099, sX),
      ObjectRange_new(sCodeunit, 50000, 50099, sX),
      ObjectRange_new(sXMLPort, 50000, 50099, sX),
      ObjectRange_new(sQuery, 50000, 50099, sX)>>

\* a plausible slip: a half-open range, the upper bound excluded
RangeInclusive_contains_HalfOpen(lo, hi, x) == lo <= x /\ x < hi

\* RangeInclusive::contains
RangeInclusive_contains(lo, hi, x) == lo <= x /\ x <= hi

\* the band of ids `main` checks
checked_range == [lo |-> 50000, hi |-> 99999]

\* a plausible slip: the scan stops at the first range of the object's type
RangeMatches_FirstOfType(ranges, i, object) ==
    /\ ranges[i].object_type = object.object_type
    /\ \A j \in 1..(i - 1) : ranges[j].object_type # object.object_type
    /\ RangeInclusive_contains(ranges[i].range_from, ranges[i].range_to, object.id)

\* the closure handed to position(): range i licenses the object
RangeMatches(ranges, i, object) ==
    /\ ranges[i].object_type = object.object_type
    /\ RangeInclusive_contains(ranges[i].range_from, ranges[i].range_to, object.id)

RECURSIVE PositionFrom(_, _, _)
PositionFrom(ranges, i, object) ==
    IF i > Len(ranges) THEN 0
    ELSE IF RangeMatches(ranges, i, object) THEN i
    ELSE PositionFrom(ranges, i + 1, object)

\* Iterator::position over the ranges: the first matching index, 0 for None
found_index(ranges, object) == PositionFrom(ranges, 1, object)

(* ------------------------------------------------------------------ *)
(* Inputs: license reports and inventory sheets.                       *)
(* ------------------------------------------------------------------ *)
SeekLines == {LineMarkerTrailing, sModuleObjectsAndPermissions}
HeaderLines == {sModuleObjectsAndPermissions, LineRowCodeunit}
BodyLines ==
    {sModuleObjectsAndPermissions, LineBlank, LineSpaces, LineRowCodeunit,
     LineRowReversed, LineRowFour, LineRowBadNumber, LineRowUnknownType}

\* the reports of the model: some lines, then possibly the section marker and
\* what follows it
LicenseTexts ==
    LET pres == SeqsUpTo(SeekLines, MaxPre)
        short == SeqsUpTo(HeaderLines, MaxHeader)
        full == [1..MaxHeader -> HeaderLines]
        bodies == SeqsUpTo(BodyLines, MaxBody)
    IN  pres
        \cup {p \o <<sObjectAssignment>> \o h : p \in pres, h \in short}
        \cup {p \o <<sObjectAssignment>> \o h \o b : p \in pres, h \in full, b \in bodies}

StringCell(s) == [k |-> "String", s |-> s, n |-> 0]
IntCell(n) == [k |-> "Int", s |-> <<>>, n |-> n]
\* a floating-point cell holding n tenths
FloatCell(n) == [k |-> "Float", s |-> <<>>, n |-> n]

HeaderRow == <<StringCell(sType), StringCell(sID), StringCell(sName)>>

InventoryRows ==
    {<<StringCell(sCodeunit), IntCell(60000), StringCell(NameA)>>,
     <<StringCell(sCodeunit), IntCell(99999), StringCell(NameB)>>,
     <<StringCell(sCodeunit), IntCell(100000), StringCell(NameA)>>,
     <<StringCell(sCodeunit), IntCell(49999), StringCell(NameA)>>,
     <<StringCell(sPage), IntCell(50000), StringCell(NameA)>>,
     <<StringCell(sTable), IntCell(60000), StringCell(NameA)>>,
     <<StringCell(sXMLport), FloatCell(600005), StringCell(NameB), StringCell(sX)>>,
     <<StringCell(sCodeunit), StringCell(sX), StringCell(NameA)>>,
     <<StringCell(sCodeunit), IntCell(60000)>>,
     <<StringCell(sForm), IntCell(60000), StringCell(NameA)>>}

\* the sheets of the model: no row at all, or a first row and data rows
Sheets ==
    {<<>>} \cup {<<h>> \o rows : h \in {HeaderRow}, rows \in SeqsUpTo(InventoryRows, MaxRows)}

\* f64 as i64: truncation toward zero
float_as_i64(n) == IF n >= 0 THEN n \div 10 ELSE 0 - ((0 - n) \div 10)

\* DataType::to_string
Cell_to_string(c) ==
    CASE c.k = "String" -> c.s
      [] c.k = "Int" -> IntToString(c.n)
      [] c.k = "Float" ->
            LET a == IF c.n < 0 THEN 0 - c.n ELSE c.n
                sign == IF c.n < 0 THEN <<"-">> ELSE <<>>
            IN  sign \o NatToString(a \div 10)
                \o (IF a % 10 = 0 THEN <<>> ELSE <<".", DigitChar(a % 10)>>)

(* ------------------------------------------------------------------ *)
(* State.                                                              *)
(* ------------------------------------------------------------------ *)
VARIABLES
    pc,                      \* where `main` is
    abort_at,                \* "none", or the place the run aborted at
    license_file,            \* the lines of the decoded license report
    ln,                      \* index of the next line the line iterator yields
    skip_n,                  \* what the Skip adaptor still has to drop
    parsed_lines,            \* history: indices of the lines the loop body took
    licensed_object_ranges,
    sheet,                   \* the rows of the selected worksheet range
    ri,                      \* index of the next row
    objects,
    oi,                      \* index of the next object the reconciler takes
    missing_objects,
    console,                 \* the lines printed to standard output
    csv_created,             \* missing-permissions.csv exists
    csv,                     \* the lines written to it
    wi                       \* index of the next violation the reporter takes

vars ==
    <<pc, abort_at, license_file, ln, skip_n, parsed_lines, licensed_object_ranges,
      sheet, ri, objects, oi, missing_objects, console, csv_created, csv, wi>>

licenseVars == <<license_file, ln, skip_n, parsed_lines>>
inventoryVars == <<sheet, ri, objects>>
reconcileVars == <<oi, missing_objects>>
reportVars == <<console, csv_created, csv, wi>>

Init ==
    /\ pc = "read_license"
    /\ abort_at = "none"
    /\ license_file = <<>>
    /\ ln = 0
    /\ skip_n = 0
    /\ parsed_lines = <<>>
    /\ licensed_object_ranges = SeedRanges
    /\ sheet = <<>>
    /\ ri = 0
    /\ objects = <<>>
    /\ oi = 0
    /\ missing_objects = <<>>
    /\ console = <<>>
    /\ csv_created = FALSE
    /\ csv = <<>>
    /\ wi = 0

\* a panic, or an Err returned from `main`: the process ends at once
Abort(where) ==
    /\ pc' = "aborted"
    /\ abort_at' = where

(* ------------------------------------------------------------------ *)
(* LicenseReportParser.                                                *)
(* ------------------------------------------------------------------ *)
\* read_file fails: expect() panics
ReadLicenseFail ==
    /\ pc = "read_license"
    /\ Abort("license_read")
    /\ UNCHANGED <<licenseVars, licensed_object_ranges, inventoryVars, reconcileVars,
                   reportVars>>

\* read_file returns the text; lines() starts at its first line
ReadLicense ==
    /\ pc = "read_license"
    /\ \E text \in LicenseTexts : license_file' = text
    /\ ln' = 1
    /\ pc' = "seek"
    /\ UNCHANGED <<abort_at, skip_n, parsed_lines, licensed_object_ranges, inventoryVars,
                   reconcileVars, reportVars>>

\* the for loop is over: the line iterator is exhausted or take_while has
\* stopped it. The report text is not read again, and the model lets go of it.
EndOfLicenseLoop ==
    /\ pc' = "open_workbook"
    /\ license_file' = <<>>
    /\ ln' = 0
    /\ skip_n' = 0
    /\ parsed_lines' = <<>>
    /\ UNCHANGED <<abort_at, licensed_object_ranges, inventoryVars, reconcileVars,
                   reportVars>>

\* a plausible slip: one line more is dropped
SkipCount_OneMore == 5 + 1

\* the number handed to skip()
SkipCount == 5

\* skip_while(|p| *p != "Object Assignment"): drops lines up to the marker and
\* yields the marker line itself as its first item
SeekStart ==
    /\ pc = "seek"
    /\ IF ln > Len(license_file)
       THEN EndOfLicenseLoop
       ELSE IF license_file[ln] # sObjectAssignment
       THEN /\ ln' = ln + 1
            /\ UNCHANGED <<pc, abort_at, license_file, skip_n, parsed_lines,
                           licensed_object_ranges, inventoryVars, reconcileVars,
                           reportVars>>
       ELSE /\ pc' = IF SkipCount > 0 THEN "skip" ELSE "collect"
            /\ skip_n' = SkipCount
            /\ UNCHANGED <<abort_at, license_file, ln, parsed_lines,
                           licensed_object_ranges, inventoryVars, reconcileVars,
                           reportVars>>

\* skip(5): drops the next item of the skip_while iterator
SkipLine ==
    /\ pc = "skip"
    /\ IF ln > Len(license_file)
       THEN EndOfLicenseLoop
       ELSE /\ ln' = ln + 1
            /\ skip_n' = skip_n - 1
            /\ pc' = IF skip_n - 1 = 0 THEN "collect" ELSE "skip"
            /\ UNCHANGED <<abort_at, license_file, parsed_lines, licensed_object_ranges,
                           inventoryVars, reconcileVars, reportVars>>

\* a plausible slip: a row of another shape is passed over
ParseRow_SkipMalformed(line) ==
    LET words == split_whitespace(line) IN
    /\ parsed_lines' = Append(parsed_lines, ln)
    /\ ln' = ln + 1
    /\ IF Len(words) = 5 /\ parse_i64(words[3]).ok /\ parse_i64(words[4]).ok
          /\ ObjectType_from(words[1]).ok
       THEN licensed_object_ranges' =
                Append(licensed_object_ranges,
                       ObjectRange_new(words[1], parse_i64(words[3]).v,
                                       parse_i64(words[4]).v, words[5]))
       ELSE UNCHANGED licensed_object_ranges
    /\ UNCHANGED <<pc, abort_at, license_file, skip_n, inventoryVars, reconcileVars,
                   reportVars>>

\* the loop body on one line
ParseRow(line) ==
    LET words == split_whitespace(line) IN
    /\ parsed_lines' = Append(parsed_lines, ln)
    /\ ln' = ln + 1
    /\ IF Len(words) # 5
       THEN /\ Abort("license_format")
            /\ UNCHANGED licensed_object_ranges
       ELSE LET range_from == parse_i64(words[3])
                range_to   == parse_i64(words[4])
            IN  IF ~range_from.ok \/ ~range_to.ok
                THEN /\ Abort("license_number")
                     /\ UNCHANGED licensed_object_ranges
                ELSE IF ~ObjectType_from(words[1]).ok
                THEN /\ Abort("license_type")
                     /\ UNCHANGED licensed_object_ranges
                ELSE /\ licensed_object_ranges' =
                            Append(licensed_object_ranges,
                                   ObjectRange_new(words[1], range_from.v, range_to.v,
                                                   words[5]))
                     /\ UNCHANGED <<pc, abort_at>>
    /\ UNCHANGED <<license_file, skip_n, inventoryVars, reconcileVars, reportVars>>

\* take_while(|p| *p != "Module Objects and Permissions"), filter(|p| *p != "")
\* and the loop body, on the next line
CollectLine ==
    /\ pc = "collect"
    /\ IF ln > Len(license_file)
       THEN EndOfLicenseLoop
       ELSE IF license_file[ln] = sModuleObjectsAndPermissions
       THEN EndOfLicenseLoop
       ELSE IF license_file[ln] = <<>>
       THEN /\ ln' = ln + 1
            /\ UNCHANGED <<pc, abort_at, license_file, skip_n, parsed_lines,
                           licensed_object_ranges, inventoryVars, reconcileVars,
                           reportVars>>
       ELSE ParseRow(license_file[ln])

(* ------------------------------------------------------------------ *)
(* InventoryLoader.                                                    *)
(* ------------------------------------------------------------------ *)
\* open_workbook fails: expect() panics
OpenWorkbookFail ==
    /\ pc = "open_workbook"
    /\ Abort("workbook_open")
    /\ UNCHANGED <<licenseVars, licensed_object_ranges, inventoryVars, reconcileVars,
                   reportVars>>

\* pick_sheet returns Err: no sheet, a terminal error, or nothing selected
PickSheetFail ==
    /\ pc = "open_workbook"
    /\ \E why \in {"no_sheets", "terminal_error", "select_a_sheet"} : Abort(why)
    /\ UNCHANGED <<licenseVars, licensed_object_ranges, inventoryVars, reconcileVars,
                   reportVars>>

\* worksheet_range is not Some(Ok(_)): the if-let body is passed over
WorksheetUnreadable ==
    /\ pc = "open_workbook"
    /\ pc' = "reconcile"
    /\ oi' = 1
    /\ UNCHANGED <<abort_at, licenseVars, licensed_object_ranges, inventoryVars,
                   missing_objects, reportVars>>

\* the number handed to rows().skip()
RowSkip == 1

\* the workbook opens, a sheet is picked and its range read
OpenWorkbook ==
    /\ pc = "open_workbook"
    /\ \E r \in Sheets : sheet' = r
    /\ ri' = RowSkip + 1
    /\ pc' = "load"
    /\ UNCHANGED <<abort_at, licenseVars, licensed_object_ranges, objects, reconcileVars,
                   reportVars>>

\* one turn of the loop over the rows; `r` ends with the if-let block
LoadRow ==
    /\ pc = "load"
    /\ IF ri > Len(sheet)
       THEN /\ pc' = "reconcile"
            /\ sheet' = <<>>
            /\ ri' = 0
            /\ oi' = 1
            /\ UNCHANGED <<abort_at, objects, missing_objects>>
       ELSE LET row == sheet[ri] IN
            /\ ri' = ri + 1
            /\ UNCHANGED <<sheet, reconcileVars>>
            /\ IF Len(row) < 3
               THEN Abort("row_format") /\ UNCHANGED objects
               ELSE LET object_type == Cell_to_string(row[1])
                        object_id == row[2]
                        name == Cell_to_string(row[3])
                    IN  IF object_id.k \notin {"Int", "Float"}
                        THEN Abort("row_id") /\ UNCHANGED objects
                        ELSE IF ~ObjectType_from(object_type).ok
                        THEN Abort("row_type") /\ UNCHANGED objects
                        ELSE /\ objects' =
                                    Append(objects,
                                           Object_new(object_type,
                                                      IF object_id.k = "Int"
                                                      THEN object_id.n
                                                      ELSE float_as_i64(object_id.n),
                                                      name))
                             /\ UNCHANGED <<pc, abort_at>>
    /\ UNCHANGED <<licenseVars, licensed_object_ranges, reportVars>>

(* ------------------------------------------------------------------ *)
(* Reconciler.                                                         *)
(* ------------------------------------------------------------------ *)
\* a plausible slip: the violation is put in front of the list
push_Front(list, object) == <<object>> \o list

\* Vec::push
push(list, object) == Append(list, object)

\* one object of the inventory through the two filters and the scan
ReconcileObject ==
    /\ pc = "reconcile"
    /\ IF oi > Len(objects)
       THEN /\ pc' = "report"
            /\ UNCHANGED <<oi, missing_objects>>
       ELSE LET object == objects[oi] IN
            /\ oi' = oi + 1
            /\ pc' = pc
            /\ IF /\ is_licensed(object.object_type)
                  /\ RangeInclusive_contains(checked_range.lo, checked_range.hi, object.id)
                  /\ found_index(licensed_object_ranges, object) = 0
               THEN missing_objects' = push(missing_objects, object)
               ELSE UNCHANGED missing_objects
    /\ UNCHANGED <<abort_at, licenseVars, licensed_object_ranges, inventoryVars,
                   reportVars>>

(* ------------------------------------------------------------------ *)
(* ViolationReporter.                                                  *)
(* ------------------------------------------------------------------ *)
\* the line println! writes for a violation
ConsoleLine(object) ==
    IntToString(object.id) \o <<" ">> \o to_string(object.object_type)
    \o <<"\t">> \o object.name

\* the row written for a violation
CsvLine(object) ==
    LET object_id == IntToString(object.id)
        quantity == IntToString(object.id - object.id + 1)
    IN  Join(<<to_string(object.object_type), object_id, object_id, sDirect, sDirect,
               sDirect, sDirect, sDirect, sAvailableRange, quantity, <<"0">>, <<"0">>>>,
             <<",">>)

\* a plausible slip: the file is created before the list is looked at
ReportStart_CreateFirst ==
    /\ pc = "report"
    /\ csv_created' = TRUE
    /\ IF missing_objects = <<>>
       THEN /\ console' = Append(console, sNoMissing)
            /\ pc' = "done"
            /\ UNCHANGED <<abort_at, csv, wi>>
       ELSE /\ pc' = "write_header"
            /\ UNCHANGED <<abort_at, console, csv, wi>>
    /\ UNCHANGED <<licenseVars, licensed_object_ranges, inventoryVars, reconcileVars>>

\* nothing is missing: the notice, and `main` returns Ok; otherwise
\* File::create, which makes the file or returns Err
ReportStart ==
    /\ pc = "report"
    /\ IF missing_objects = <<>>
       THEN /\ console' = Append(console, sNoMissing)
            /\ pc' = "done"
            /\ UNCHANGED <<abort_at, csv_created, csv, wi>>
       ELSE \/ /\ csv_created' = TRUE
               /\ pc' = "write_header"
               /\ UNCHANGED <<abort_at, console, csv, wi>>
            \/ /\ Abort("csv_create")
               /\ UNCHANGED <<console, csv_created, csv, wi>>
    /\ UNCHANGED <<licenseVars, licensed_object_ranges, inventoryVars, reconcileVars>>

\* write_all of the header line
WriteHeader ==
    /\ pc = "write_header"
    /\ \/ /\ csv' = Append(csv, sCsvHeader)
          /\ wi' = 1
          /\ pc' = "write_rows"
          /\ UNCHANGED abort_at
       \/ /\ Abort("csv_write")
          /\ UNCHANGED <<csv, wi>>
    /\ UNCHANGED <<licenseVars, licensed_object_ranges, inventoryVars, reconcileVars,
                   console, csv_created>>

\* one turn of the loop over the violations: println!, then the row
WriteRow ==
    /\ pc = "write_rows"
    /\ wi <= Len(missing_objects)
    /\ console' = Append(console, ConsoleLine(missing_objects[wi]))
    /\ \/ /\ csv' = Append(csv, CsvLine(missing_objects[wi]))
          /\ wi' = wi + 1
          /\ UNCHANGED <<pc, abort_at>>
       \/ /\ Abort("csv_write")
          /\ UNCHANGED <<csv, wi>>
    /\ UNCHANGED <<licenseVars, licensed_object_ranges, inventoryVars, reconcileVars,
                   csv_created>>

\* flush, the closing message, and `main` returns Ok
Finish ==
    /\ pc = "write_rows"
    /\ wi > Len(missing_objects)
    /\ \/ /\ console' = Append(console, sWrote)
          /\ pc' = "done"
          /\ UNCHANGED abort_at
       \/ /\ Abort("csv_write")
          /\ UNCHANGED console
    /\ UNCHANGED <<licenseVars, licensed_object_ranges, inventoryVars, reconcileVars,
                   csv_created, csv, wi>>

Next ==
    \/ ReadLicenseFail
    \/ ReadLicense
    \/ SeekStart
    \/ SkipLine
    \/ CollectLine
    \/ OpenWorkbookFail
    \/ PickSheetFail
    \/ WorksheetUnreadable
    \/ OpenWorkbook
    \/ LoadRow
    \/ ReconcileObject
    \/ ReportStart
    \/ WriteHeader
    \/ WriteRow
    \/ Finish

Spec == Init /\ [][Next]_vars

(* ------------------------------------------------------------------ *)
(* Vocabulary of the properties, written out without the operators of *)
(* the model's reconciler.                                             *)
(* ------------------------------------------------------------------ *)
LicensedTypeNames == {"TableData", "Report", "Codeunit", "XMLport", "Query", "Page"}
UnlicensedTypeNames ==
    {"Table", "MenuSuite", "System", "FieldNumber", "PageExtension", "TableExtension",
     "Enum", "EnumExtension", "Profile", "ProfileExtension", "PermissionSet",
     "PermissionSetExtension", "ReportExtension"}

LicenseAborts == {"license_read", "license_format", "license_number", "license_type"}
InventoryAborts ==
    {"workbook_open", "no_sheets", "terminal_error", "select_a_sheet", "row_format",
     "row_id", "row_type"}
WriteAborts == {"csv_create", "csv_write"}

TypeOK ==
    /\ pc \in {"read_license", "seek", "skip", "collect", "open_workbook", "load",
               "reconcile", "report", "write_header", "write_rows", "done", "aborted"}
    /\ (pc = "aborted") = (abort_at # "none")
    /\ abort_at \in {"none"} \cup LicenseAborts \cup InventoryAborts \cup WriteAborts
    /\ csv_created \in BOOLEAN

\* the objects the reconciler has been through
Reconciled == 1..(oi - 1)

Covered(object, ranges) ==
    \E i \in 1..Len(ranges) :
        /\ ranges[i].object_type = object.object_type
        /\ ranges[i].range_from <= object.id
        /\ object.id <= ranges[i].range_to

InList(object, list) == \E k \in 1..Len(list) : list[k] = object

InBand(id) == 50000 <= id /\ id <= 99999

\* index of the first line equal to `line`, 0 when there is none
FirstIndexOf(text, line) ==
    IF \E i \in 1..Len(text) : text[i] = line
    THEN CHOOSE i \in 1..Len(text) :
            text[i] = line /\ \A j \in 1..(i - 1) : text[j] # line
    ELSE 0

\* index of the first line equal to `line` at or after `from`, Len + 1 when none
FirstIndexFrom(text, line, from) ==
    IF \E i \in from..Len(text) : text[i] = line
    THEN CHOOSE i \in from..Len(text) :
            text[i] = line /\ \A j \in from..(i - 1) : text[j] # line
    ELSE Len(text) + 1

RECURSIVE SubseqFrom(_, _, _, _)
SubseqFrom(s, i, t, j) ==
    IF i > Len(s) THEN TRUE
    ELSE IF j > Len(t) THEN FALSE
    ELSE IF s[i] = t[j] THEN SubseqFrom(s, i + 1, t, j + 1)
    ELSE SubseqFrom(s, i, t, j + 1)

\* s is t with some elements left out
IsSubseq(s, t) == SubseqFrom(s, 1, t, 1)

(* ------------------------------------------------------------------ *)
(* C1                                                                  *)
(* ------------------------------------------------------------------ *)
\* C1, as stated: every reconciled inventory object is absent from the
\* violation list exactly when some range of its type contains its id.
C1_CoverageLaw ==
    \A i \in Reconciled :
        (~InList(objects[i], missing_objects))
            <=> Covered(objects[i], licensed_object_ranges)

\* C1, amended: a reconciled object of a licensed type with an id in the band
\* 50000..99999 is absent from the violation list exactly when some range of its
\* type contains its id; an object of another type or outside the band is
\* absent from the list whether a range contains it or not.
C1_CoverageLawOfCheckedObjects ==
    \A i \in Reconciled :
        IF objects[i].object_type \in LicensedTypeNames /\ InBand(objects[i].id)
        THEN (~InList(objects[i], missing_objects))
                <=> Covered(objects[i], licensed_object_ranges)
        ELSE ~InList(objects[i], missing_objects)

\* reconciliation is over; one object is licensed by a parsed range only and
\* is no violation, another has no range and is one
C1_Witness ==
    /\ pc = "report"
    /\ \E i, j \in Reconciled :
        /\ objects[i].object_type \in LicensedTypeNames /\ InBand(objects[i].id)
        /\ Covered(objects[i], licensed_object_ranges)
        /\ ~Covered(objects[i], SeedRanges)
        /\ ~InList(objects[i], missing_objects)
        /\ ~Covered(objects[j], licensed_object_ranges)
        /\ InList(objects[j], missing_objects)

(* ------------------------------------------------------------------ *)
(* C2                                                                  *)
(* ------------------------------------------------------------------ *)
\* C2: while the scanner has found no line equal to "Object Assignment" in a
\* report that holds none, the run stays in the scanner or aborts; it never
\* goes on to the inventory workbook.
C2_NoMarkerAborts ==
    [][(pc = "seek" /\ FirstIndexOf(license_file, sObjectAssignment) = 0)
           => pc' \in {"seek", "aborted"}]_vars

(* ------------------------------------------------------------------ *)
(* C3                                                                  *)
(* ------------------------------------------------------------------ *)
\* C3: no object of one of the thirteen types that need no license is in the
\* violation list, and each of the thirteen is a type is_licensed rejects.
C3_UnlicensedNeverViolation ==
    /\ \A k \in 1..Len(missing_objects) :
            missing_objects[k].object_type \notin UnlicensedTypeNames
    /\ \A i \in Reconciled :
            objects[i].object_type \in UnlicensedTypeNames
                => ~InList(objects[i], missing_objects)
    /\ \A t \in UnlicensedTypeNames : t \in ObjectTypes /\ ~is_licensed(t)

\* a Table inside the band that no range contains has been reconciled and is
\* no violation
C3_Witness ==
    /\ pc = "report"
    /\ \E i \in Reconciled :
        /\ objects[i].object_type = "Table"
        /\ InBand(objects[i].id)
        /\ ~Covered(objects[i], licensed_object_ranges)
        /\ ~InList(objects[i], missing_objects)

(* ------------------------------------------------------------------ *)
(* C4                                                                  *)
(* ------------------------------------------------------------------ *)
\* C4: no object with an id below 50000 or above 99999 is in the violation
\* list; 50000 and 99999 are inside the checked band, so a licensed-type object
\* at either end that no range contains is a violation.
C4_OutOfBandNeverViolation ==
    /\ \A k \in 1..Len(missing_objects) :
            ~(missing_objects[k].id < 50000 \/ missing_objects[k].id > 99999)
    /\ \A i \in Reconciled :
            (objects[i].id < 50000 \/ objects[i].id > 99999)
                => ~InList(objects[i], missing_objects)
    /\ \A i \in Reconciled :
            (/\ objects[i].id \in {50000, 99999}
             /\ objects[i].object_type \in LicensedTypeNames
             /\ ~Covered(objects[i], licensed_object_ranges))
                => InList(objects[i], missing_objects)
    /\ RangeInclusive_contains(checked_range.lo, checked_range.hi, 50000)
    /\ RangeInclusive_contains(checked_range.lo, checked_range.hi, 99999)
    /\ ~RangeInclusive_contains(checked_range.lo, checked_range.hi, 49999)
    /\ ~RangeInclusive_contains(checked_range.lo, checked_range.hi, 100000)

\* a Codeunit at 99999 is a violation and a Codeunit outside the band, which
\* no range contains either, is none
C4_Witness ==
    /\ pc = "report"
    /\ \E i, j \in Reconciled :
        /\ objects[i].id = 99999
        /\ InList(objects[i], missing_objects)
        /\ objects[j].object_type = "Codeunit"
        /\ (objects[j].id < 50000 \/ objects[j].id > 99999)
        /\ ~Covered(objects[j], licensed_object_ranges)
        /\ ~InList(objects[j], missing_objects)

(* ------------------------------------------------------------------ *)
(* C5                                                                  *)
(* ------------------------------------------------------------------ *)
\* C5: every range held satisfies range_from <= range_to and
\* quantity = range_to - range_from + 1.
C5_RangeWellFormed ==
    \A i \in 1..Len(licensed_object_ranges) :
        /\ licensed_object_ranges[i].range_from <= licensed_object_ranges[i].range_to
        /\ licensed_object_ranges[i].quantity =
              licensed_object_ranges[i].range_to
                  - licensed_object_ranges[i].range_from + 1

(* ------------------------------------------------------------------ *)
(* C6                                                                  *)
(* ------------------------------------------------------------------ *)
\* C6: missing-permissions.csv exists only once the license is parsed, the
\* inventory loaded and every object reconciled, and only with a non-empty
\* violation list; a run that ends with an empty list has printed the notice
\* alone and made no file; a run aborted by a read or parse failure has made
\* no file.
C6_ArtifactOnlyAfterReconciliation ==
    /\ csv_created =>
          /\ missing_objects # <<>>
          /\ pc \in {"write_header", "write_rows", "done"} \/ abort_at = "csv_write"
          /\ oi = Len(objects) + 1
    /\ (pc = "done" /\ missing_objects = <<>>) =>
          /\ ~csv_created
          /\ csv = <<>>
          /\ console = <<sNoMissing>>
    /\ abort_at \in LicenseAborts \cup InventoryAborts =>
          /\ ~csv_created
          /\ csv = <<>>
    /\ csv # <<>> => csv_created

\* a run that has ended with the file made and a row per violation in it
C6_Witness ==
    /\ pc = "done"
    /\ csv_created
    /\ missing_objects # <<>>
    /\ Len(csv) = Len(missing_objects) + 1

(* ------------------------------------------------------------------ *)
(* C7                                                                  *)
(* ------------------------------------------------------------------ *)
\* C7: the violation list is the reconciled part of the inventory with some
\* rows left out, in the inventory's order, no row taken twice; the console
\* lines and the rows of the file follow the order of the list.
C7_OrderPreserved ==
    /\ IsSubseq(missing_objects, SubSeq(objects, 1, oi - 1))
    /\ \A k \in 2..Len(csv) :
            k - 1 <= Len(missing_objects) /\ csv[k] = CsvLine(missing_objects[k - 1])
    /\ csv_created =>
            \A k \in 1..Len(console) :
                IF k <= Len(missing_objects)
                THEN console[k] = ConsoleLine(missing_objects[k])
                ELSE console[k] = sWrote

\* two different violations have been reported
C7_Witness ==
    /\ pc = "done"
    /\ Len(missing_objects) = 2
    /\ missing_objects[1] # missing_objects[2]
    /\ Len(csv) = 3

(* ------------------------------------------------------------------ *)
(* C8                                                                  *)
(* ------------------------------------------------------------------ *)
\* C8, as stated: five lines after the marker line are skipped, so no line up
\* to the fifth after the marker is handed to the loop body.
C8_FiveFurtherLinesSkipped ==
    LET m == FirstIndexOf(license_file, sObjectAssignment) IN
    \A k \in 1..Len(parsed_lines) : m > 0 /\ parsed_lines[k] >= m + 6

\* C8, amended: the marker line and the four lines after it are skipped, so the
\* first line that can be a data row is the fifth after the marker; the loop
\* body takes no line before it, none at or after the first line from there on
\* that equals "Module Objects and Permissions", and no empty line.
C8_MarkerAndFourLinesSkipped ==
    LET m == FirstIndexOf(license_file, sObjectAssignment)
        stop == FirstIndexFrom(license_file, sModuleObjectsAndPermissions, m + 5)
    IN  /\ \A k \in 1..Len(parsed_lines) :
              /\ m > 0
              /\ m + 5 <= parsed_lines[k]
              /\ parsed_lines[k] < stop
              /\ license_file[parsed_lines[k]] # <<>>
        /\ (/\ m > 0
            /\ pc \in {"skip", "collect", "aborted"}
            /\ ln > m + 5
            /\ m + 5 < stop
            /\ license_file[m + 5] # <<>>)
              => (parsed_lines # <<>> /\ parsed_lines[1] = m + 5)
        /\ (pc = "skip" /\ m > 0) => (ln <= m + 4 /\ skip_n = m + 5 - ln)

\* the fifth line after the marker has been taken as a row, and a row and an
\* end marker among the four lines before it have not
C8_Witness ==
    LET m == FirstIndexOf(license_file, sObjectAssignment) IN
    /\ pc = "collect"
    /\ m > 0
    /\ parsed_lines = <<m + 5>>
    /\ license_file[m + 1] = LineRowCodeunit
    /\ license_file[m + 4] = sModuleObjectsAndPermissions

(* ------------------------------------------------------------------ *)
(* C9                                                                  *)
(* ------------------------------------------------------------------ *)
\* C9: in the collection window an empty line appends nothing and the scan
\* goes on; any other line either has exactly five tokens and appends exactly
\* one range behind the ranges held (type from token 1, bounds from tokens 3
\* and 4, codes from token 5), or aborts the run with the ranges as they were;
\* a run aborted in the license never reconciles.
C9_RowAppendsOrAborts ==
    /\ [][(/\ pc = "collect"
           /\ ln <= Len(license_file)
           /\ license_file[ln] # sModuleObjectsAndPermissions)
          => IF license_file[ln] = <<>>
             THEN pc' = "collect" /\ licensed_object_ranges' = licensed_object_ranges
             ELSE LET w == split_whitespace(license_file[ln])
                      n == Len(licensed_object_ranges)
                  IN  \/ /\ pc' = "aborted"
                         /\ abort_at' \in LicenseAborts
                         /\ licensed_object_ranges' = licensed_object_ranges
                      \/ /\ pc' = "collect"
                         /\ Len(w) = 5
                         /\ Len(licensed_object_ranges') = n + 1
                         /\ SubSeq(licensed_object_ranges', 1, n) = licensed_object_ranges
                         /\ ObjectType_from(w[1]).ok
                         /\ licensed_object_ranges'[n + 1].object_type
                                = ObjectType_from(w[1]).t
                         /\ parse_i64(w[3]).ok
                         /\ licensed_object_ranges'[n + 1].range_from = parse_i64(w[3]).v
                         /\ parse_i64(w[4]).ok
                         /\ licensed_object_ranges'[n + 1].range_to = parse_i64(w[4]).v
                         /\ licensed_object_ranges'[n + 1].permission = w[5]]_vars
    /\ [](abort_at \in LicenseAborts =>
              (oi = 0 /\ objects = <<>> /\ missing_objects = <<>>))

\* an empty line of the window has been passed over and the row after it has
\* been appended behind the built-in ranges
C9_Witness ==
    /\ pc = "collect"
    /\ Len(parsed_lines) = 1
    /\ license_file[parsed_lines[1] - 1] = <<>>
    /\ Len(licensed_object_ranges) = Len(SeedRanges) + 1
    /\ licensed_object_ranges[Len(SeedRanges) + 1].range_to = 60000

(* ------------------------------------------------------------------ *)
(* C10                                                                 *)
(* ------------------------------------------------------------------ *)
\* the ranges in the order f puts them in
Rearranged(ranges, f) == [i \in 1..Len(ranges) |-> ranges[f[i]]]

\* rearrangements of 1..n: the reversal, every rotation, every exchange of two
Rearrangements(n) ==
    {[i \in 1..n |-> n + 1 - i]}
    \cup {[i \in 1..n |-> ((i - 1 + r) % n) + 1] : r \in 0..(n - 1)}
    \cup {[i \in 1..n |-> IF i = a THEN b ELSE IF i = b THEN a ELSE i] :
            a \in 1..n, b \in 1..n}

RECURSIVE ViolationsFrom(_, _, _)
ViolationsFrom(ranges, list, i) ==
    IF i > Len(list) THEN <<>>
    ELSE IF /\ is_licensed(list[i].object_type)
            /\ RangeInclusive_contains(checked_range.lo, checked_range.hi, list[i].id)
            /\ found_index(ranges, list[i]) = 0
         THEN <<list[i]>> \o ViolationsFrom(ranges, list, i + 1)
         ELSE ViolationsFrom(ranges, list, i + 1)

\* C10: the first-match scan over the ranges in any other order (parsed
\* entries in front of the built-in ones, reversed, any two exchanged) gives
\* the violation list the run has built.
C10_RangeOrderIrrelevant ==
    oi > 1 =>
        \A f \in Rearrangements(Len(licensed_object_ranges)) :
            ViolationsFrom(Rearranged(licensed_object_ranges, f),
                           SubSeq(objects, 1, oi - 1), 1) = missing_objects

\* an object that a built-in range of its type does not contain and a parsed
\* range behind it does
C10_Witness ==
    /\ pc = "report"
    /\ \E i \in Reconciled :
        /\ found_index(licensed_object_ranges, objects[i]) > Len(SeedRanges)
        /\ \E j \in 1..Len(SeedRanges) :
              licensed_object_ranges[j].object_type = objects[i].object_type
        /\ ~InList(objects[i], missing_objects)
    /\ missing_objects # <<>>
====
